---- MODULE Spec2Model ----
(***************************************************************************)
(* Monday -> Nozbe importer (src/src/ntimporters/monday/importer.py).      *)
(*                                                                         *)
(* One run of run_import is modelled as a sequential program whose steps   *)
(* are its calls to the two platforms.  Every step performs one external   *)
(* call together with all the code that runs up to the next external call  *)
(* (result handling, quota check, sorting, loop bookkeeping, and, when the *)
(* call raises, the propagation up to the except clause of run_import).    *)
(* The answers of the platforms are chosen nondeterministically from       *)
(* bounded sets.  `calls' is the history of external calls of the run.     *)
(***************************************************************************)
EXTENDS Integers, Sequences, FiniteSets, TLC

(***************************************************************************)
(* Bounds of the model.                                                    *)
(***************************************************************************)
MaxProjects == 2      \* source projects in the listing
MaxNtProjects == 2    \* destination projects already in the team
MaxSections == 3      \* sections listed for one project
MaxSectionIds == 1    \* distinct source section (group) ids
MaxTasks == 2         \* tasks listed for one project
MaxComments == 3      \* comments listed for one task
MaxRecords == 5       \* records returned by all the listings of a run
LiveRecords == 4      \* the same, in the runs checked for termination
MaxEmpty == 1         \* create calls of a run answered with an empty result
MaxCap == 2           \* largest cap of the quota snapshot

(***************************************************************************)
(* Python values that flow through the importer.                           *)
(*   None            the value None                                        *)
(*   Id(n)           an identifier generated by the destination            *)
(*   StrOf(x)        str(x): a string; str(None) is the text "None"        *)
(***************************************************************************)
None == [k |-> "None", v |-> 0]
Id(n) == [k |-> "id", v |-> n]
EmptyStr == [k |-> "str", v |-> -1]
NoneText == [k |-> "str", v |-> 0]

StrOf(x) == IF x.k = "None" THEN NoneText
            ELSE IF x.k = "id" THEN [k |-> "str", v |-> x.v]
            ELSE x

Truthy(x) == x # None /\ x # EmptyStr

(***************************************************************************)
(* Timestamps.  An ISO-8601 string is a wall-clock reading with an UTC     *)
(* offset; isoparse(s).timestamp() is the instant it denotes.  A string    *)
(* that is not ISO-8601 makes isoparse raise ValueError.                   *)
(***************************************************************************)
Iso(w, o) == [k |-> "iso", wall |-> w, off |-> o]
BadStamp == [k |-> "bad", wall |-> 0, off |-> 0]
NoStamp == [k |-> "None", wall |-> 0, off |-> 0]

isoparse_ok(s) == s.k = "iso"
isoparse_timestamp(s) == s.wall - s.off

Ms(n) == [k |-> "ms", v |-> n]

\* _parse_timestamp, lines 114-118; no line of the source calls it
parse_timestamp(monday_timestamp) ==
    IF monday_timestamp.k = "None" THEN None
    ELSE Ms(isoparse_timestamp(monday_timestamp) * 1000)

(***************************************************************************)
(* Exceptions.                                                             *)
(***************************************************************************)
NoExc == [type |-> "none", why |-> "none", at |-> 0]
Exc(ty, why, n) == [type |-> ty, why |-> why, at |-> n]

CaughtTypes == {"ImportException", "OpenApiException"}

\* the source client reports its failures as a platform-API error
SourceClientError == "ImportException"

(***************************************************************************)
(* Answers of the platforms.                                               *)
(***************************************************************************)
SeqsUpTo(S, n) == UNION {[1..m -> S] : m \in 0..n}

Min(a, b) == IF a < b THEN a ELSE b

BoardKinds == {"public", "private"}
ProjectStates == {"active", "archived"}
ProjectShapes == {sh \in [board_kind : BoardKinds, state : ProjectStates] :
                    sh.board_kind = "private" => sh.state = "active"}

\* the listing of source projects; a project's id is unique in the listing
ProjectListings(n) ==
    {[i \in 1..Len(f) |-> [id |-> i, board_kind |-> f[i].board_kind,
                           state |-> f[i].state]] : f \in SeqsUpTo(ProjectShapes, n)}

\* destination projects of the team: is_open, and ended_at (None or set)
NtProjectShapes == {[is_open |-> TRUE, has_ended_at |-> TRUE, ended_at |-> None],
                    [is_open |-> TRUE, has_ended_at |-> TRUE, ended_at |-> Ms(1)],
                    [is_open |-> TRUE, has_ended_at |-> FALSE, ended_at |-> None],
                    [is_open |-> FALSE, has_ended_at |-> TRUE, ended_at |-> None]}
NtProjectListings(n) == SeqsUpTo(NtProjectShapes, n)

\* the cap of the sections is the largest one: a listing of MaxCap + 1
\* sections exceeds it, a listing with a repeated section id does not
LimitSnapshots == [projects_open : 1..MaxCap, project_sections : {MaxCap}]

Members == {Id(100)}

SectionIds == 1..MaxSectionIds
SectionListings(n) ==
    {[i \in 1..Len(f) |-> [id |-> f[i]]] : f \in SeqsUpTo(SectionIds, n)}

\* group 0: the task has no group
DueValues == {NoStamp, Iso(5, 1)}
TaskShapes == [group : {0} \cup SectionIds, due_at : DueValues]
TaskListings(n) ==
    {[i \in 1..Len(f) |-> [id |-> i, group |-> f[i].group, due_at |-> f[i].due_at]] :
        f \in SeqsUpTo(TaskShapes, n)}

\* the instants 3, 1 and 2, the last one written with the largest wall clock
CommentStamps == {Iso(3, 0), Iso(1, 0), Iso(4, 2), BadStamp}
CommentListings(n) ==
    {[i \in 1..Len(f) |-> [id |-> i, created_at |-> f[i]]] :
        f \in SeqsUpTo(CommentStamps, n)}

VARIABLES
    nt_auth_token, app_key, team_id,   \* arguments of run_import
    pc,                \* the external call the run is about to issue
    result,            \* value returned by run_import
    escaped,           \* exception that left run_import
    raised,            \* exception raised inside the try block
    limits, curr_member,
    monday_projects, nt_projects,
    p, nt_project_id,  \* project loop
    monday_sections, s, sections_mapping,
    monday_tasks, t, nt_task_id,
    comments, c,       \* sorted comments of the task, and loop position
    next_id,           \* identifiers handed out by the destination
    fetched,           \* records listed so far, counted against MaxRecords
    empties,           \* create calls answered with an empty result so far
    checks,            \* history of the quota checks
    calls              \* history of external calls

vars == <<nt_auth_token, app_key, team_id, pc, result, escaped, raised,
          limits, curr_member, monday_projects, nt_projects, p, nt_project_id,
          monday_sections, s, sections_mapping, monday_tasks, t, nt_task_id,
          comments, c, next_id, fetched, empties, checks, calls>>

Unset == [k |-> "unset", v |-> 0]
ErrorText(n) == [k |-> "error", v |-> n]
MissingNtAuthToken == ErrorText(1)
MissingAppKey == ErrorText(2)
ReturnedExc(e) == [k |-> "exc", v |-> e]

\* the state at the call of run_import, `listed' records of the budget of
\* the listings being spent
Started(listed) ==
    /\ nt_auth_token \in {"", "t"}
    /\ app_key \in {"", "k"}
    /\ team_id \in {"", "t1"}
    /\ pc = "run_import"
    /\ result = Unset
    /\ escaped = NoExc
    /\ raised = NoExc
    /\ limits = [projects_open |-> 0, project_sections |-> 0]
    /\ curr_member = None
    /\ monday_projects = <<>>
    /\ nt_projects = <<>>
    /\ p = 0
    /\ nt_project_id = None
    /\ monday_sections = <<>>
    /\ s = 0
    /\ sections_mapping = <<>>
    /\ monday_tasks = <<>>
    /\ t = 0
    /\ nt_task_id = None
    /\ comments = <<>>
    /\ c = 0
    /\ next_id = 1
    /\ fetched = listed
    /\ empties = 0
    /\ checks = <<>>
    /\ calls = <<>>

Init == Started(0)

\* the runs whose listings return at most LiveRecords records
FairInit == Started(MaxRecords - LiveRecords)

(***************************************************************************)
(* The state of the run as one record, so that the pieces of the program   *)
(* can be written as functions from state to state.                        *)
(***************************************************************************)
Cur == [pc |-> pc, result |-> result, escaped |-> escaped, raised |-> raised,
        limits |-> limits, curr_member |-> curr_member,
        monday_projects |-> monday_projects, nt_projects |-> nt_projects,
        p |-> p, nt_project_id |-> nt_project_id,
        monday_sections |-> monday_sections, s |-> s,
        sections_mapping |-> sections_mapping,
        monday_tasks |-> monday_tasks, t |-> t, nt_task_id |-> nt_task_id,
        comments |-> comments, c |-> c, next_id |-> next_id,
        fetched |-> fetched, empties |-> empties, checks |-> checks,
        calls |-> calls]

Becomes(st) ==
    /\ pc' = st.pc
    /\ result' = st.result
    /\ escaped' = st.escaped
    /\ raised' = st.raised
    /\ limits' = st.limits
    /\ curr_member' = st.curr_member
    /\ monday_projects' = st.monday_projects
    /\ nt_projects' = st.nt_projects
    /\ p' = st.p
    /\ nt_project_id' = st.nt_project_id
    /\ monday_sections' = st.monday_sections
    /\ s' = st.s
    /\ sections_mapping' = st.sections_mapping
    /\ monday_tasks' = st.monday_tasks
    /\ t' = st.t
    /\ nt_task_id' = st.nt_task_id
    /\ comments' = st.comments
    /\ c' = st.c
    /\ next_id' = st.next_id
    /\ fetched' = st.fetched
    /\ empties' = st.empties
    /\ checks' = st.checks
    /\ calls' = st.calls
    /\ UNCHANGED <<nt_auth_token, app_key, team_id>>

\* one external call: the operation, the loop position it was issued at,
\* the source record it is about, the payload sent, and the outcome
Call(op, src, payload, out, res) ==
    [op |-> op, proj |-> p, sec |-> s, task |-> t, com |-> c, src |-> src,
     payload |-> payload, out |-> out, res |-> res]

\* outcomes of a create call: the created entity, an empty result, an error
Outcomes == {"ok", "raise"} \cup (IF empties < MaxEmpty THEN {"empty"} ELSE {})

\* the destination hands out a fresh identifier with every created entity
Logged(st, call) ==
    [st EXCEPT !.calls = Append(@, call),
               !.next_id = IF call.res.k = "id" /\ call.res.v = @ THEN @ + 1 ELSE @,
               !.empties = IF call.out = "empty" THEN @ + 1 ELSE @]
\* outcomes of a lookup or listing
Answers == {"ok", "raise"}

(***************************************************************************)
(* run_import: validation (lines 30-33), the except clause and the final   *)
(* return (lines 47-49).                                                   *)
(***************************************************************************)
missing_input_token_only(token, key) ==
    IF token = "" THEN MissingNtAuthToken ELSE None

missing_input(token, key) ==
    IF token = "" THEN MissingNtAuthToken
    ELSE IF key = "" THEN MissingAppKey
    ELSE None

run_import_except(exc) ==
    IF exc.type \in CaughtTypes
    THEN [result |-> ReturnedExc(exc), escaped |-> NoExc]
    ELSE [result |-> Unset, escaped |-> exc]

Raise_skips_item(st, exc) ==
    IF st.p < Len(st.monday_projects)
    THEN [st EXCEPT !.pc = "post_project", !.p = @ + 1, !.raised = exc]
    ELSE [st EXCEPT !.pc = "done", !.raised = exc,
                    !.result = run_import_except(exc).result]

\* an exception raised below run_import unwinds every loop
Raise(st, exc) ==
    [st EXCEPT !.pc = "done", !.raised = exc,
               !.result = run_import_except(exc).result,
               !.escaped = run_import_except(exc).escaped]

Return(st) == [st EXCEPT !.pc = "done", !.result = None]

run_import ==
    /\ pc = "run_import"
    /\ LET missing == missing_input(nt_auth_token, app_key)
       IN IF missing # None
          THEN Becomes([Cur EXCEPT !.pc = "done", !.result = missing])
          ELSE Becomes([Cur EXCEPT !.pc = "nt_limits"])

(***************************************************************************)
(* Quota guard (ntimporters.utils.check_limits): the projected count must  *)
(* not exceed the cap of the category.                                     *)
(***************************************************************************)
check_limits_raises(snapshot, category, projected_count) ==
    projected_count > snapshot[category]

\* a call of check_limits: the category, the count passed, the project being
\* imported and the number of external calls issued before it
Checked(st, category, projected_count) ==
    [st EXCEPT !.checks = Append(@, [category |-> category,
                                     count |-> projected_count,
                                     proj |-> st.p, at |-> Len(st.calls)])]

Count(seq, Test(_)) == Cardinality({i \in DOMAIN seq : Test(seq[i])})

\* lines 83-85
monday_projects_open(projects) ==
    Count(projects, LAMBDA elt : elt.board_kind = "public")

nt_projects_open_ignores_end(projects) ==
    Count(projects, LAMBDA elt : elt.is_open)

\* lines 91-100
nt_projects_open(projects) ==
    Count(projects, LAMBDA elt :
        elt.is_open /\ (~elt.has_ended_at \/ ~Truthy(elt.ended_at)))

projects_open_count_source_only(m_projects, n_projects) ==
    monday_projects_open(m_projects)

projects_open_count(m_projects, n_projects) ==
    monday_projects_open(m_projects) + nt_projects_open(n_projects)

(***************************************************************************)
(* Loop bookkeeping: what the run does once an item is finished.           *)
(***************************************************************************)
next_project_first_only(st) ==
    IF st.p = 0 /\ Len(st.monday_projects) > 0
    THEN [st EXCEPT !.pc = "post_project", !.p = 1]
    ELSE Return(st)

next_project_reversed(st) ==
    IF st.p = 0 /\ Len(st.monday_projects) > 0
    THEN [st EXCEPT !.pc = "post_project", !.p = Len(st.monday_projects)]
    ELSE IF st.p > 1
         THEN [st EXCEPT !.pc = "post_project", !.p = @ - 1]
         ELSE Return(st)

\* line 103: the next project of the listing, or the return of line 49
next_project(st) ==
    IF st.p < Len(st.monday_projects)
    THEN [st EXCEPT !.pc = "post_project", !.p = @ + 1]
    ELSE Return(st)

\* line 150
next_task(st) ==
    IF st.t < Len(st.monday_tasks)
    THEN [st EXCEPT !.pc = "post_task", !.t = @ + 1]
    ELSE next_project(st)

next_comment_breaks_on_empty(st) ==
    IF st.calls # <<>> /\ st.calls[Len(st.calls)].op = "post_comment"
                      /\ st.calls[Len(st.calls)].out = "empty"
    THEN next_task(st)
    ELSE IF st.c < Len(st.comments)
         THEN [st EXCEPT !.pc = "post_comment", !.c = @ + 1]
         ELSE next_task(st)

\* line 180
next_comment(st) ==
    IF st.c < Len(st.comments)
    THEN [st EXCEPT !.pc = "post_comment", !.c = @ + 1]
    ELSE next_task(st)

next_section_retries_empty(st) ==
    IF st.calls # <<>> /\ st.calls[Len(st.calls)].op = "post_project_section"
                      /\ st.calls[Len(st.calls)].out = "empty"
    THEN [st EXCEPT !.pc = "post_project_section"]
    ELSE IF st.s < Len(st.monday_sections)
         THEN [st EXCEPT !.pc = "post_project_section", !.s = @ + 1]
         ELSE [st EXCEPT !.pc = "tasks"]

\* line 126, and the call of _import_tasks in line 140
next_section(st) ==
    IF st.s < Len(st.monday_sections)
    THEN [st EXCEPT !.pc = "post_project_section", !.s = @ + 1]
    ELSE [st EXCEPT !.pc = "tasks"]

(***************************************************************************)
(* _import_data, lines 54-56 and 82-101.                                   *)
(***************************************************************************)
nt_limits ==
    /\ pc = "nt_limits"
    /\ \E out \in Answers :
         LET n == Len(calls) + 1 IN
         IF out = "raise"
         THEN Becomes(Raise(Logged(Cur, Call("nt_limits", None, None, out, None)),
                            Exc("OpenApiException", "api", n)))
         ELSE \E snapshot \in LimitSnapshots :
                Becomes([Logged(Cur, Call("nt_limits", None, None, out, None))
                         EXCEPT !.limits = snapshot, !.pc = "current_nt_member"])

current_nt_member ==
    /\ pc = "current_nt_member"
    /\ \E out \in Answers :
         LET n == Len(calls) + 1 IN
         IF out = "raise"
         THEN Becomes(Raise(Logged(Cur, Call("current_nt_member", None, None, out, None)),
                            Exc("OpenApiException", "api", n)))
         ELSE \E member \in Members :
                Becomes([Logged(Cur, Call("current_nt_member", None, None, out, member))
                         EXCEPT !.curr_member = member, !.pc = "projects"])

projects ==
    /\ pc = "projects"
    /\ \E out \in Answers :
         LET n == Len(calls) + 1 IN
         IF out = "raise"
         THEN Becomes(Raise(Logged(Cur, Call("projects", None, None, out, None)),
                            Exc(SourceClientError, "source", n)))
         ELSE \E listing \in ProjectListings(Min(MaxProjects, MaxRecords - fetched)) :
                Becomes([Logged(Cur, Call("projects", None, None, out, None))
                         EXCEPT !.monday_projects = listing,
                                !.fetched = @ + Len(listing),
                                !.pc = "get_projects_per_team"])

\* lines 86-103: the listing of the team's projects, the quota check of the
\* open projects, and the entry into the project loop
get_projects_per_team ==
    /\ pc = "get_projects_per_team"
    /\ \E out \in Answers :
         LET n == Len(calls) + 1
             call == Call("get_projects_per_team", None, None, out, None)
         IN
         IF out = "raise"
         THEN Becomes(Raise(Logged(Cur, call), Exc("OpenApiException", "api", n)))
         ELSE \E listing \in NtProjectListings(Min(MaxNtProjects, MaxRecords - fetched)) :
                LET st == Checked([Logged(Cur, call)
                                   EXCEPT !.nt_projects = listing,
                                          !.fetched = @ + Len(listing)],
                                  "projects_open",
                                  projects_open_count(monday_projects, listing))
                IN
                IF check_limits_raises(limits, "projects_open",
                                       projects_open_count(monday_projects, listing))
                THEN Becomes(Raise(st, Exc("ImportException", "quota", n)))
                ELSE Becomes(next_project(st))

(***************************************************************************)
(* _import_project, lines 58-80.  A create call answers with the created   *)
(* entity, here its identifier, or with None.                              *)
(***************************************************************************)
\* of the payloads, the fields that depend on the source record or on an
\* identifier; names, descriptions, titles and positions are copied as they are
project_model_always_open(project, team) ==
    [team_id |-> team,
     ended_at |-> IF project.state \in {"archived", "deleted"} THEN Ms(1) ELSE None,
     is_open |-> TRUE]

\* lines 60-73
project_model(project, team) ==
    [team_id |-> team,
     ended_at |-> IF project.state \in {"archived", "deleted"} THEN Ms(1) ELSE None,
     is_open |-> project.board_kind = "public"]

\* lines 74-75: str((nt_project or {}).get("id"))
import_project_id(nt_project) == StrOf(nt_project)

post_project ==
    /\ pc = "post_project"
    /\ \E out \in Outcomes :
         LET n == Len(calls) + 1
             project == monday_projects[p]
             nt_project == IF out = "ok" THEN Id(next_id) ELSE None
             call == Call("post_project", project, project_model(project, team_id),
                          out, nt_project)
             st == Logged(Cur, call)
         IN
         IF out = "raise"
         THEN Becomes(Raise(st, Exc("OpenApiException", "api", n)))
         ELSE IF ~Truthy(import_project_id(nt_project))
              THEN Becomes(next_project(st))
              ELSE Becomes([st EXCEPT !.nt_project_id = import_project_id(nt_project),
                                      !.pc = "sections"])

(***************************************************************************)
(* _import_project_sections, lines 108-142.                                *)
(***************************************************************************)
section_model(section, project_id) == [project_id |-> project_id]

Get(mapping, key) == IF key \in DOMAIN mapping THEN mapping[key] ELSE None

Put(mapping, key, value) ==
    [x \in DOMAIN mapping \cup {key} |-> IF x = key THEN value ELSE mapping[x]]

put_section_forgets_on_failure(mapping, section, nt_section) ==
    IF Truthy(nt_section)
    THEN Put(mapping, section.id, StrOf(nt_section))
    ELSE [x \in DOMAIN mapping \ {section.id} |-> mapping[x]]

\* lines 127-139
put_section(mapping, section, nt_section) ==
    IF Truthy(nt_section)
    THEN Put(mapping, section.id, StrOf(nt_section))
    ELSE mapping

sections_count_all_but_one(listing) == Len(listing) - 1

\* line 123: len(monday_sections)
sections_count(listing) == Len(listing)

sections_mapping_kept(mapping) == mapping

\* line 125: sections_mapping = {}
new_sections_mapping(mapping) == <<>>

\* lines 120-125: the listing of the sections and their quota check
sections ==
    /\ pc = "sections"
    /\ \E out \in Answers :
         LET n == Len(calls) + 1
             call == Call("sections", monday_projects[p], None, out, None)
         IN
         IF out = "raise"
         THEN Becomes(Raise(Logged(Cur, call), Exc(SourceClientError, "source", n)))
         ELSE \E listing \in SectionListings(Min(MaxSections, MaxRecords - fetched)) :
                LET st == Checked([Logged(Cur, call)
                                   EXCEPT !.monday_sections = listing,
                                          !.fetched = @ + Len(listing),
                                          !.sections_mapping = new_sections_mapping(@),
                                          !.s = 0],
                                  "project_sections", sections_count(listing))
                IN
                IF check_limits_raises(limits, "project_sections", sections_count(listing))
                THEN Becomes(Raise(st, Exc("ImportException", "quota", n)))
                ELSE Becomes(next_section(st))

post_project_section ==
    /\ pc = "post_project_section"
    /\ \E out \in Outcomes :
         LET n == Len(calls) + 1
             section == monday_sections[s]
             nt_section == IF out = "ok" THEN Id(next_id) ELSE None
             call == Call("post_project_section", section,
                          section_model(section, nt_project_id), out, nt_section)
             st == Logged(Cur, call)
         IN
         IF out = "raise"
         THEN Becomes(Raise(st, Exc("OpenApiException", "api", n)))
         ELSE Becomes(next_section(
                  [st EXCEPT !.sections_mapping = put_section(@, section, nt_section)]))

(***************************************************************************)
(* _import_tasks, lines 145-171.                                           *)
(***************************************************************************)
\* line 153 wraps the due value of the source as it is
TimestampNullable(value) == value

task_model_section_by_task_id(task, mapping, project_id, author_id) ==
    [project_id |-> project_id,
     project_section_id |-> Get(mapping, task.id),
     due_at |-> IF task.due_at.k # "None"
                THEN TimestampNullable(task.due_at) ELSE task.due_at,
     responsible_id |-> IF task.due_at.k # "None" THEN author_id ELSE None]

task_model_always_responsible(task, mapping, project_id, author_id) ==
    [project_id |-> project_id,
     project_section_id |-> Get(mapping, task.group),
     due_at |-> IF task.due_at.k # "None"
                THEN TimestampNullable(task.due_at) ELSE task.due_at,
     responsible_id |-> author_id]

\* lines 151-168
task_model(task, mapping, project_id, author_id) ==
    [project_id |-> project_id,
     project_section_id |-> Get(mapping, task.group),
     due_at |-> IF task.due_at.k # "None"
                THEN TimestampNullable(task.due_at) ELSE task.due_at,
     responsible_id |-> IF task.due_at.k # "None" THEN author_id ELSE None]

tasks ==
    /\ pc = "tasks"
    /\ \E out \in Answers :
         LET n == Len(calls) + 1
             call == Call("tasks", monday_projects[p], None, out, None)
         IN
         IF out = "raise"
         THEN Becomes(Raise(Logged(Cur, call), Exc(SourceClientError, "source", n)))
         ELSE \E listing \in TaskListings(Min(MaxTasks, MaxRecords - fetched)) :
                Becomes(next_task([Logged(Cur, call)
                                   EXCEPT !.monday_tasks = listing,
                                          !.fetched = @ + Len(listing),
                                          !.t = 0]))

post_task ==
    /\ pc = "post_task"
    /\ \E out \in Outcomes :
         LET n == Len(calls) + 1
             task == monday_tasks[t]
             nt_task == IF out = "ok" THEN Id(next_id) ELSE None
             call == Call("post_task", task,
                          task_model(task, sections_mapping, nt_project_id, curr_member),
                          out, nt_task)
             st == Logged(Cur, call)
         IN
         IF out = "raise"
         THEN Becomes(Raise(st, Exc("OpenApiException", "api", n)))
         ELSE IF ~Truthy(nt_task)
              THEN Becomes(next_task(st))
              ELSE Becomes([st EXCEPT !.nt_task_id = StrOf(nt_task), !.pc = "comments"])

(***************************************************************************)
(* _import_comments, lines 177-195.                                        *)
(***************************************************************************)
comment_model(comment, task_id) == [task_id |-> task_id]

comment_key_wall_clock(elt) == elt.created_at.wall

\* line 182
comment_key(elt) == isoparse_timestamp(elt.created_at)

\* x goes behind every element whose key is not greater than its own
RECURSIVE insert_sorted(_, _)
insert_sorted(seq, x) ==
    IF seq = <<>> THEN <<x>>
    ELSE IF comment_key(seq[Len(seq)]) <= comment_key(x)
         THEN Append(seq, x)
         ELSE Append(insert_sorted(SubSeq(seq, 1, Len(seq) - 1), x), seq[Len(seq)])

\* lines 180-183: sorted(..., key=...), a stable sort
RECURSIVE sorted_comments(_)
sorted_comments(seq) ==
    IF seq = <<>> THEN <<>>
    ELSE insert_sorted(sorted_comments(SubSeq(seq, 1, Len(seq) - 1)), seq[Len(seq)])

\* the listing of the comments and their sort; a created_at that isoparse
\* rejects raises ValueError out of the key function
comments_listing ==
    /\ pc = "comments"
    /\ \E out \in Answers :
         LET n == Len(calls) + 1
             call == Call("comments", monday_tasks[t], None, out, None)
         IN
         IF out = "raise"
         THEN Becomes(Raise(Logged(Cur, call), Exc(SourceClientError, "source", n)))
         ELSE \E listing \in CommentListings(Min(MaxComments, MaxRecords - fetched)) :
                LET st == [Logged(Cur, call) EXCEPT !.fetched = @ + Len(listing),
                                                    !.c = 0]
                IN
                IF \E i \in DOMAIN listing : ~isoparse_ok(listing[i].created_at)
                THEN Becomes(Raise(st, Exc("ValueError", "parse", n)))
                ELSE Becomes(next_comment([st EXCEPT !.comments = sorted_comments(listing)]))

\* lines 184-195: the result of the call is not looked at
post_comment ==
    /\ pc = "post_comment"
    /\ \E out \in Outcomes :
         LET n == Len(calls) + 1
             comment == comments[c]
             nt_comment == IF out = "ok" THEN Id(next_id) ELSE None
             call == Call("post_comment", comment, comment_model(comment, nt_task_id),
                          out, nt_comment)
             st == Logged(Cur, call)
         IN
         IF out = "raise"
         THEN Becomes(Raise(st, Exc("OpenApiException", "api", n)))
         ELSE Becomes(next_comment(st))

Next ==
    \/ run_import
    \/ nt_limits
    \/ current_nt_member
    \/ projects
    \/ get_projects_per_team
    \/ post_project
    \/ sections
    \/ post_project_section
    \/ tasks
    \/ post_task
    \/ comments_listing
    \/ post_comment

Spec == Init /\ [][Next]_vars

\* every external call returns (with a value or an error), so that a run that
\* can take a step takes it
FairSpec == FairInit /\ [][Next]_vars /\ WF_vars(Next)


(***************************************************************************)
(* Vocabulary of the properties.                                           *)
(***************************************************************************)
CreateOps == {"post_project", "post_project_section", "post_task", "post_comment"}

Issued(ops) == {i \in DOMAIN calls : calls[i].op \in ops}

Returned(value) == result.k = value.k /\ result.v = value.v

(***************************************************************************)
(* C1: a run whose nt_auth_token is empty, or whose nt_auth_token is not   *)
(* empty and whose app_key is empty, issues no call to either platform,    *)
(* and returns the 'Missing ...' error of the first empty credential.      *)
(***************************************************************************)
C1_MissingCredential ==
    (nt_auth_token = "" \/ app_key = "") =>
        /\ calls = <<>>
        /\ pc = "done" =>
             Returned(IF nt_auth_token = "" THEN MissingNtAuthToken ELSE MissingAppKey)

C1_Witness ==
    /\ pc = "done"
    /\ nt_auth_token # ""
    /\ app_key = ""
    /\ Returned(MissingAppKey)
    /\ calls = <<>>

(***************************************************************************)
(* C2: no exception leaves run_import, whatever an external collaborator   *)
(* (destination, quota guard, source client, timestamp parser) raises.     *)
(***************************************************************************)
C2_NeverRaises == escaped = NoExc

(***************************************************************************)
(* C3: when the public source projects plus the destination projects that  *)
(* are open and have no end timestamp exceed the 'projects_open' cap, the  *)
(* run ends with the quota error as its result and no create call has      *)
(* been issued.                                                            *)
(***************************************************************************)
ProjectedOpen ==
    Cardinality({i \in DOMAIN monday_projects : monday_projects[i].board_kind = "public"})
    + Cardinality({i \in DOMAIN nt_projects :
                     /\ nt_projects[i].is_open
                     /\ (nt_projects[i].has_ended_at => nt_projects[i].ended_at = None)})

TeamProjectsListed ==
    \E i \in DOMAIN calls : calls[i].op = "get_projects_per_team" /\ calls[i].out = "ok"

C3_QuotaBeforeCreate ==
    (TeamProjectsListed /\ ProjectedOpen > limits.projects_open) =>
        /\ pc = "done"
        /\ result.k = "exc"
        /\ result.v.why = "quota"
        /\ Issued(CreateOps) = {}

C3_Witness ==
    /\ TeamProjectsListed
    /\ ProjectedOpen = limits.projects_open + 1
    /\ \E i \in DOMAIN nt_projects : nt_projects[i].is_open
    /\ \E i \in DOMAIN monday_projects : monday_projects[i].board_kind = "public"
    /\ pc = "done"
    /\ result.k = "exc"
    /\ result.v.why = "quota"

(***************************************************************************)
(* C4: once a quota or platform-API exception has been raised, the call    *)
(* that raised it is the last call of the run (no further create call,     *)
(* and no delete call for what was created before), and run_import has     *)
(* returned exactly that exception.                                        *)
(***************************************************************************)
C4_AbortOnException ==
    raised.type \in {"ImportException", "OpenApiException"} =>
        /\ pc = "done"
        /\ result.k = "exc"
        /\ result.v = raised
        /\ raised.at = Len(calls)
        /\ \A i \in DOMAIN calls : i < Len(calls) => calls[i].out # "raise"

C4_Witness ==
    /\ raised.why = "api"
    /\ Len(calls) > 0
    /\ calls[Len(calls)].op = "post_task"
    /\ \E i \in DOMAIN calls : calls[i].op = "post_project_section" /\ calls[i].out = "ok"
    /\ result.k = "exc"
    /\ result.v = raised

(***************************************************************************)
(* C5: a project or task whose create call answered with an empty result   *)
(* has no fetch and no create call issued for its subtree afterwards, and  *)
(* the empty result does not show in the result of the run: a run in       *)
(* which nothing raised returns None.                                      *)
(***************************************************************************)
ProjectSubtreeOps == {"sections", "post_project_section", "tasks", "post_task",
                      "comments", "post_comment"}
TaskSubtreeOps == {"comments", "post_comment"}

PrunedProject(i) ==
    \A j \in DOMAIN calls :
        (j > i /\ calls[j].proj = calls[i].proj) => calls[j].op \notin ProjectSubtreeOps

PrunedTask(i) ==
    \A j \in DOMAIN calls :
        (j > i /\ calls[j].proj = calls[i].proj /\ calls[j].task = calls[i].task)
            => calls[j].op \notin TaskSubtreeOps

C5_SoftSkip ==
    /\ \A i \in DOMAIN calls :
         /\ (calls[i].op = "post_project" /\ calls[i].out = "empty") => PrunedProject(i)
         /\ (calls[i].op = "post_task" /\ calls[i].out = "empty") => PrunedTask(i)
    /\ (pc = "done" /\ raised = NoExc /\ calls # <<>>) => Returned(None)

(***************************************************************************)
(* C6: every section-create and task-create call carries as project id     *)
(* the identifier returned by an earlier successful project-create call,   *)
(* and every comment-create call carries as task id the identifier         *)
(* returned by an earlier successful task-create call.                     *)
(***************************************************************************)
ParentCreated(j, parent_op, parent_id) ==
    \E i \in DOMAIN calls :
        /\ i < j
        /\ calls[i].op = parent_op
        /\ calls[i].out = "ok"
        /\ parent_id = StrOf(calls[i].res)

C6_ParentExists ==
    \A j \in DOMAIN calls :
        /\ calls[j].op \in {"post_project_section", "post_task"}
             => ParentCreated(j, "post_project", calls[j].payload.project_id)
        /\ calls[j].op = "post_comment"
             => ParentCreated(j, "post_task", calls[j].payload.task_id)

(***************************************************************************)
(* C7: the comment-create calls of a task are issued in non-decreasing     *)
(* order of the instant their created_at denotes, and comments of the      *)
(* same instant in the order of the source listing.                        *)
(***************************************************************************)
Instant(stamp) == stamp.wall - stamp.off

C7_CommentsInTimeOrder ==
    \A i, j \in Issued({"post_comment"}) :
        (i < j /\ calls[i].proj = calls[j].proj /\ calls[i].task = calls[j].task) =>
            \/ Instant(calls[i].src.created_at) < Instant(calls[j].src.created_at)
            \/ /\ Instant(calls[i].src.created_at) = Instant(calls[j].src.created_at)
               /\ calls[i].src.id < calls[j].src.id

\* the listing T3, T1, T2 is submitted as T1, T2, T3
C7_Witness ==
    \E i \in DOMAIN calls :
        /\ i + 2 \in DOMAIN calls
        /\ \A k \in i..(i + 2) : calls[k].op = "post_comment"
        /\ calls[i].src = [id |-> 2, created_at |-> Iso(1, 0)]
        /\ calls[i + 1].src = [id |-> 3, created_at |-> Iso(4, 2)]
        /\ calls[i + 2].src = [id |-> 1, created_at |-> Iso(3, 0)]

(***************************************************************************)
(* C8: after the section loop of a project, sections_mapping has an entry  *)
(* for every source section id whose creation succeeded and no entry for   *)
(* a source section id whose creation failed, also when a section id       *)
(* occurs more than once in the listing.                                   *)
(***************************************************************************)
SectionCalls(pr) ==
    {i \in DOMAIN calls : calls[i].op = "post_project_section" /\ calls[i].proj = pr}

Succeeded(pr, sid) ==
    {i \in SectionCalls(pr) : calls[i].src.id = sid /\ calls[i].out = "ok"}

Failed(pr, sid) ==
    {i \in SectionCalls(pr) : calls[i].src.id = sid /\ calls[i].out = "empty"}

Largest(S) == CHOOSE x \in S : \A y \in S : y <= x

SectionLoopDone == pc = "tasks"

C8_MappingOriginal ==
    SectionLoopDone =>
        \A sid \in SectionIds :
            /\ Succeeded(p, sid) # {} => sid \in DOMAIN sections_mapping
            /\ Failed(p, sid) # {} => sid \notin DOMAIN sections_mapping

(***************************************************************************)
(* C8, amended: after the section loop of a project, sections_mapping has  *)
(* exactly one entry for each distinct source section id of which at       *)
(* least one creation succeeded, holding the identifier returned by the    *)
(* last creation that succeeded, and no entry for a source section id of   *)
(* which no creation succeeded.                                            *)
(***************************************************************************)
C8_MappingAmended ==
    SectionLoopDone =>
        /\ DOMAIN sections_mapping = {sid \in SectionIds : Succeeded(p, sid) # {}}
        /\ \A sid \in DOMAIN sections_mapping :
             sections_mapping[sid] = StrOf(calls[Largest(Succeeded(p, sid))].res)

\* a section id listed twice, created the first time and refused the second
C8_Witness ==
    /\ SectionLoopDone
    /\ \E sid \in SectionIds :
         /\ Succeeded(p, sid) # {}
         /\ Failed(p, sid) # {}
         /\ Largest(Succeeded(p, sid)) < Largest(Failed(p, sid))
         /\ sid \in DOMAIN sections_mapping

(***************************************************************************)
(* C9: the project_section_id of every task-create call is the identifier *)
(* recorded for the task's group by the section loop of the same project   *)
(* (the one returned by the last successful creation of that section),     *)
(* and null when the task has no group or no section with that id was      *)
(* created; the task is created all the same.                              *)
(***************************************************************************)
MappedSection(j) ==
    LET created == {i \in Succeeded(calls[j].proj, calls[j].src.group) : i < j}
    IN IF created = {} THEN None ELSE StrOf(calls[Largest(created)].res)

C9_TaskSection ==
    \A j \in Issued({"post_task"}) :
        /\ calls[j].payload.project_section_id = MappedSection(j)
        /\ calls[j].src.group = 0 => calls[j].payload.project_section_id = None

\* the section of the task was listed and its creation failed
C9_Witness ==
    \E j \in Issued({"post_task"}) :
        /\ calls[j].src.group # 0
        /\ Failed(calls[j].proj, calls[j].src.group) # {}
        /\ Succeeded(calls[j].proj, calls[j].src.group) = {}
        /\ calls[j].payload.project_section_id = None
        /\ calls[j].out = "ok"

(***************************************************************************)
(* C10: the responsible_id of every task-create call is the acting         *)
(* member's id when the source task has a due value and null when it has   *)
(* none, although an acting member is known.                               *)
(***************************************************************************)
HasDue(task) == task.due_at # NoStamp

C10_Responsible ==
    \A j \in Issued({"post_task"}) :
        /\ calls[j].payload.responsible_id =
               (IF HasDue(calls[j].src) THEN curr_member ELSE None)
        /\ curr_member # None =>
               (calls[j].payload.responsible_id = curr_member <=> HasDue(calls[j].src))

C10_Witness ==
    \E i, j \in Issued({"post_task"}) :
        /\ calls[i].proj = calls[j].proj
        /\ HasDue(calls[i].src)
        /\ calls[i].payload.responsible_id = curr_member
        /\ ~HasDue(calls[j].src)
        /\ calls[j].payload.responsible_id = None
        /\ curr_member # None

(***************************************************************************)
(* C11: the count passed to the 'projects_open' quota check is the number  *)
(* of public source projects plus the number of destination projects of    *)
(* the team that are open and have no end timestamp.                       *)
(***************************************************************************)
OpenChecks == {k \in DOMAIN checks : checks[k].category = "projects_open"}

C11_ProjectedCount ==
    /\ \A k \in OpenChecks : checks[k].count = ProjectedOpen
    /\ TeamProjectsListed => OpenChecks # {}

\* a listing of the team with an open project that has ended and one that has
\* not, and a source listing with a public and a private project
C11_Witness ==
    /\ OpenChecks # {}
    /\ \E i, j \in DOMAIN nt_projects :
         /\ nt_projects[i].is_open /\ nt_projects[i].ended_at # None
         /\ nt_projects[j].is_open /\ nt_projects[j].ended_at = None
    /\ \E i, j \in DOMAIN monday_projects :
         /\ monday_projects[i].board_kind = "public"
         /\ monday_projects[j].board_kind = "private"
    /\ \A k \in OpenChecks : checks[k].count = 2

(***************************************************************************)
(* C12: the due_at of every task-create call is the millisecond epoch the  *)
(* timestamp conversion gives for the due value of the source task, and    *)
(* null when the source task has no due value.                             *)
(***************************************************************************)
C12_DueConverted ==
    \A j \in Issued({"post_task"}) :
        /\ HasDue(calls[j].src) =>
             calls[j].payload.due_at = parse_timestamp(calls[j].src.due_at)
        /\ ~HasDue(calls[j].src) => calls[j].payload.due_at.k = "None"

LastCall == calls[Len(calls)]

GoesOnAfterComment(call) ==
    IF call.com < Len(comments)
    THEN pc = "post_comment" /\ c = call.com + 1 /\ t = call.task /\ p = call.proj
    ELSE IF call.task < Len(monday_tasks)
    THEN pc = "post_task" /\ t = call.task + 1 /\ p = call.proj
    ELSE IF call.proj < Len(monday_projects)
    THEN pc = "post_project" /\ p = call.proj + 1
    ELSE pc = "done" /\ Returned(None)

SectionChecks(pr) ==
    {k \in DOMAIN checks : checks[k].category = "project_sections" /\ checks[k].proj = pr}

C14_SectionQuota ==
    /\ \A i \in Issued({"sections"}) :
         calls[i].out = "ok" => \E k \in SectionChecks(calls[i].proj) : checks[k].at = i
    /\ \A k \in SectionChecks(p) : checks[k].count = Len(monday_sections)
    /\ \A j \in Issued({"post_project_section"}) :
         \E k \in SectionChecks(calls[j].proj) :
             checks[k].at < j /\ checks[k].count <= limits.project_sections
    /\ \A pr \in DOMAIN monday_projects : \A k \in SectionChecks(pr) :
         checks[k].count > limits.project_sections =>
             /\ pc = "done"
             /\ result.k = "exc"
             /\ result.v.why = "quota"
             /\ \A j \in Issued({"post_project_section", "post_task"}) : calls[j].proj # pr
             /\ \E i \in Issued({"post_project"}) : calls[i].proj = pr

C14_Witness ==
    /\ pc = "done"
    /\ result.k = "exc"
    /\ result.v.why = "quota"
    /\ \E k \in SectionChecks(p) :
         /\ checks[k].count = Len(monday_sections)
         /\ checks[k].count = limits.project_sections + 1
    /\ \E i \in Issued({"post_project"}) : calls[i].proj = p /\ calls[i].out = "ok"
    /\ \A j \in Issued({"post_project_section", "post_task"}) : calls[j].proj # p

(***************************************************************************)
(* C15: the create calls of a run are issued top-down and depth-first:     *)
(* projects in the order of the source listing, within a project the       *)
(* project before its sections, the sections (in listing order) before     *)
(* the tasks, the tasks in listing order, each task directly followed by   *)
(* its comments, and the whole subtree of a project before the next        *)
(* project.                                                                *)
(***************************************************************************)
Rank(call) == IF call.op = "post_project" THEN 0
              ELSE IF call.op = "post_project_section" THEN 1 ELSE 2

WithinRank(a, b) ==
    IF a.op = "post_project" THEN FALSE
    ELSE IF a.op = "post_project_section" THEN a.sec < b.sec
    ELSE \/ a.task < b.task
         \/ /\ a.task = b.task
            /\ \/ a.op = "post_task" /\ b.op = "post_comment"
               \/ a.op = "post_comment" /\ b.op = "post_comment" /\ a.com < b.com

Precedes(a, b) ==
    \/ a.proj < b.proj
    \/ /\ a.proj = b.proj
       /\ \/ Rank(a) < Rank(b)
          \/ Rank(a) = Rank(b) /\ WithinRank(a, b)

PreviousCreate(j) == Largest({i \in Issued(CreateOps) : i < j})

C15_TopDownOrder ==
    /\ \A i, j \in Issued(CreateOps) : i < j => Precedes(calls[i], calls[j])
    /\ \A i \in Issued({"post_project"}) : calls[i].src = monday_projects[calls[i].proj]
    /\ \A j \in Issued({"post_comment"}) :
         LET prev == calls[PreviousCreate(j)]
         IN /\ prev.op \in {"post_task", "post_comment"}
            /\ prev.proj = calls[j].proj
            /\ prev.task = calls[j].task

\* a project with a section, a task and a comment, and then the next project
C15_Witness ==
    \E i \in DOMAIN calls :
        /\ i + 6 \in DOMAIN calls
        /\ calls[i].op = "post_project" /\ calls[i].proj = 1
        /\ calls[i + 2].op = "post_project_section"
        /\ calls[i + 4].op = "post_task"
        /\ calls[i + 6].op = "post_comment"
        /\ calls[Len(calls)].op = "post_project" /\ calls[Len(calls)].proj = 2

(***************************************************************************)
(* C16: when any required input field (team_id, nt_auth_token, app_key)    *)
(* is empty, run_import issues no external call and returns an error       *)
(* text; in particular an empty team_id with both tokens present does so.  *)
(***************************************************************************)
RequiredFieldEmpty == nt_auth_token = "" \/ app_key = "" \/ team_id = ""

C16_FailFast ==
    RequiredFieldEmpty =>
        /\ calls = <<>>
        /\ pc = "done" => result.k = "error"

\* the run of an empty team_id with both tokens present that reaches the
\* destination platform
C16_EmptyTeamProceeds ==
    /\ team_id = "" /\ nt_auth_token # "" /\ app_key # ""
    /\ calls # <<>>
    /\ calls[1].op = "nt_limits"

(***************************************************************************)
(* C17: no retries.  For each occurrence of a source record in the source  *)
(* listings (a project, a section of a project, a task of a project, a     *)
(* comment of a task) at most one create call is issued, whatever its      *)
(* outcome; an external call that raises is the last call of the run, and  *)
(* its error is the run's failure.                                         *)
(***************************************************************************)
SameOccurrence(a, b) ==
    /\ a.op = b.op
    /\ a.proj = b.proj
    /\ a.op = "post_project_section" => a.sec = b.sec
    /\ a.op \in {"post_task", "post_comment"} => a.task = b.task
    /\ a.op = "post_comment" => a.com = b.com

\* every external call raises an error that run_import catches and returns
Surfaced(exc) ==
    result.k = "exc" /\ result.v = exc /\ escaped = NoExc

C17_NoRetries ==
    /\ \A i, j \in Issued(CreateOps) :
         i # j => ~SameOccurrence(calls[i], calls[j])
    /\ \A i \in DOMAIN calls :
         calls[i].out = "raise" =>
             /\ i = Len(calls)
             /\ pc = "done"
             /\ raised.at = i
             /\ Surfaced(raised)

\* a create call that returned an empty result, later create calls, and a
\* create call that raised and ended the run
C17_Witness ==
    /\ pc = "done"
    /\ \E i \in Issued(CreateOps) :
         /\ calls[i].out = "empty"
         /\ \E j \in Issued(CreateOps) : i < j /\ calls[j].out = "ok"
    /\ calls[Len(calls)].op \in CreateOps
    /\ calls[Len(calls)].out = "raise"

(***************************************************************************)
(* C18: every run terminates; a run that ended without any exception       *)
(* raised returned None and issued a create call for every project of the  *)
(* source listing, public or not.                                          *)
(***************************************************************************)
EveryProjectPosted ==
    \A pr \in DOMAIN monday_projects :
        \E i \in Issued({"post_project"}) :
            calls[i].proj = pr /\ calls[i].src = monday_projects[pr]

\* as stated: for every run, those that stop at the validation included
C18_Terminates ==
    /\ <>(pc = "done")
    /\ [](pc = "done" /\ raised = NoExc => Returned(None) /\ EveryProjectPosted)

\* amended: for the runs whose credentials are both present
C18_TerminatesValidated ==
    /\ <>(pc = "done")
    /\ [](pc = "done" /\ raised = NoExc /\ missing_input(nt_auth_token, app_key) = None
            => Returned(None) /\ EveryProjectPosted)

\* a run of a public and a private project that ended with no exception
C18_Witness ==
    /\ pc = "done" /\ raised = NoExc
    /\ missing_input(nt_auth_token, app_key) = None
    /\ Returned(None)
    /\ \E a, b \in DOMAIN monday_projects :
         /\ monday_projects[a].board_kind = "public"
         /\ monday_projects[b].board_kind = "private"
    /\ EveryProjectPosted

(***************************************************************************)
(* C19: the mapping of section ids is scoped to one project.  A non-null   *)
(* project_section_id of a task-create call is the id of a section that    *)
(* this run created under the destination project of the task, while that  *)
(* source project was being imported; it is never the id of a section      *)
(* created for another project, whatever the group id of the task.         *)
(***************************************************************************)
CreatedSections == {i \in Issued({"post_project_section"}) : calls[i].out = "ok"}

C19_MapScopedToProject ==
    \A j \in Issued({"post_task"}) :
        LET section_id == calls[j].payload.project_section_id
        IN section_id # None =>
            /\ \E i \in CreatedSections :
                 /\ i < j
                 /\ StrOf(calls[i].res) = section_id
                 /\ calls[i].proj = calls[j].proj
                 /\ calls[i].payload.project_id = calls[j].payload.project_id
            /\ \A i \in CreatedSections :
                 calls[i].proj # calls[j].proj => StrOf(calls[i].res) # section_id

\* the group of a task of the second project is a section created for the
\* first project only
C19_Witness ==
    \E j \in Issued({"post_task"}) :
        /\ calls[j].proj = 2
        /\ calls[j].src.group # 0
        /\ \E i \in CreatedSections :
             calls[i].proj = 1 /\ calls[i].src.id = calls[j].src.group
        /\ \A i \in CreatedSections : calls[i].proj # 2
        /\ calls[j].payload.project_section_id = None

(***************************************************************************)
(* C20: with no other writer on the team, the number of destination        *)
(* projects of the team that are open and have no end timestamp, those     *)
(* found at the start plus those the run has created so far, never exceeds *)
(* the 'projects_open' cap of the quota snapshot.                          *)
(***************************************************************************)
OpenWithoutEnd(project) == project.is_open /\ project.ended_at = None

TeamOpenAtStart ==
    Cardinality({i \in DOMAIN nt_projects : OpenWithoutEnd(nt_projects[i])})

CreatedOpen ==
    Cardinality({i \in Issued({"post_project"}) :
                    calls[i].out = "ok" /\ OpenWithoutEnd(calls[i].payload)})

\* as stated: in every state, whatever the team held at the start
C20_WithinCap == TeamOpenAtStart + CreatedOpen <= limits.projects_open

\* amended: a team within the cap at the start stays within it, and for a
\* team that exceeds the cap at the start the run creates nothing
C20_CapNotOverrunByRun ==
    /\ TeamOpenAtStart <= limits.projects_open => C20_WithinCap
    /\ TeamOpenAtStart > limits.projects_open =>
         /\ Issued(CreateOps) = {}
         /\ TeamProjectsListed => pc = "done" /\ result.k = "exc" /\ result.v.why = "quota"

\* a finished run that filled the cap: an open project in the team at the
\* start, a public project created, another project soft-skipped
C20_Witness ==
    /\ pc = "done"
    /\ TeamOpenAtStart >= 1
    /\ CreatedOpen >= 1
    /\ TeamOpenAtStart + CreatedOpen = limits.projects_open
    /\ \E i \in Issued({"post_project"}) : calls[i].out = "empty"
====
